---- MODULE Spec2Model ----
(***************************************************************************)
(* finance_core (backend/finance_core/src/lib.rs): two pure functions over *)
(* f64, calculate_compound_interest and calculate_inflation_impact, called *)
(* by host threads.                                                        *)
(*                                                                         *)
(* An f64 is modelled by its IEEE-754 class and, when finite and nonzero,  *)
(* by its exact value m * 2^e with m odd.  The operations below follow     *)
(* IEEE-754 round-to-nearest-even: every result is rounded to the 53 bits  *)
(* of the significand, with overflow to infinity, gradual underflow to     *)
(* subnormals and zero, signed zeros and NaN propagation.  powf is not an  *)
(* IEEE-754 operation and is not correctly rounded: a call of it returns   *)
(* either of the two f64 its exact value lies between.  Significands and   *)
(* their products exceed the integers of the model checker, so they are    *)
(* held as sequences of digits.                                            *)
(***************************************************************************)
EXTENDS Integers, Sequences, FiniteSets, Bags, TLC

\* pc[th]: where host thread th stands ("idle", or the line of lib.rs it is
\*   about to run: "c7".."c12" in calculate_compound_interest, "i19".."i22"
\*   in calculate_inflation_impact).
\* call[th]: the call th issued last.  frame[s]: the locals of the call
\*   running on stack frame s.  ret[th]: the call th returned from last and
\*   its result.  issued: the calls issued whose results the host holds or
\*   awaits.
VARIABLES pc, call, frame, ret, issued
vars == <<pc, call, frame, ret, issued>>

\* ------------------------------------------------------ natural numbers
\* A natural number of any size: its digits in base LimbBase = 2^LimbBits,
\* least significant first, the last digit nonzero; 0 is <<>>.
LimbBits == 15
LimbBase == 32768

Pow2(k) == 2^k

\* The number of bits of one digit.
BitLen(m) == CHOOSE k \in 0..LimbBits : (k = 0 \/ m >= Pow2(k - 1)) /\ m < Pow2(k)

\* Digit i of a, 0 beyond its length.
Digit(a, i) == IF i >= 1 /\ i <= Len(a) THEN a[i] ELSE 0

\* a without its leading zero digits.
NTrim(a) ==
    LET n == CHOOSE k \in 0..Len(a) : (k = 0 \/ a[k] # 0) /\ \A j \in (k + 1)..Len(a) : a[j] = 0
    IN SubSeq(a, 1, n)

\* The digits of an integer 0 <= k < 2^31.
NOf(k) == NTrim(<<k % LimbBase, (k \div LimbBase) % LimbBase, k \div (LimbBase * LimbBase)>>)

\* a * LimbBase^k
NShiftLimbs(a, k) == IF Len(a) = 0 THEN <<>> ELSE [i \in 1..k |-> 0] \o a

\* a + b: a carry enters digit i when a digit below overflows and every
\* digit between passes the carry on.
NAdd(a, b) ==
    IF Len(a) = 0 THEN NTrim(b)
    ELSE IF Len(b) = 0 THEN NTrim(a)
    ELSE
    LET n == (IF Len(a) > Len(b) THEN Len(a) ELSE Len(b)) + 1
        s == [i \in 1..n |-> Digit(a, i) + Digit(b, i)]
        carry(i) == \E j \in 1..(i - 1) :
                        s[j] >= LimbBase /\ \A l \in (j + 1)..(i - 1) : s[l] = LimbBase - 1
    IN NTrim([i \in 1..n |-> (s[i] + (IF carry(i) THEN 1 ELSE 0)) % LimbBase])

\* a - b for a >= b
NSub(a, b) ==
    IF Len(a) = 0 \/ Len(b) = 0 THEN a
    ELSE
    LET borrow(i) == \E j \in 1..(i - 1) :
                        a[j] < Digit(b, j) /\ \A l \in (j + 1)..(i - 1) : a[l] = Digit(b, l)
    IN NTrim([i \in 1..Len(a) |->
                (a[i] - Digit(b, i) - (IF borrow(i) THEN 1 ELSE 0) + LimbBase) % LimbBase])

\* -1, 0, 1 as a < b, a = b, a > b
NCmp(a, b) ==
    IF Len(a) # Len(b) THEN (IF Len(a) < Len(b) THEN -1 ELSE 1)
    ELSE IF a = b THEN 0
    ELSE LET i == CHOOSE k \in 1..Len(a) : a[k] # b[k] /\ \A j \in (k + 1)..Len(a) : a[j] = b[j]
         IN IF a[i] < b[i] THEN -1 ELSE 1

\* a * d for 0 <= d <= LimbBase
NScale(a, d) ==
    IF d = 0 \/ Len(a) = 0 THEN <<>>
    ELSE NAdd([i \in 1..Len(a) |-> (a[i] * d) % LimbBase],
              <<0>> \o [i \in 1..Len(a) |-> (a[i] * d) \div LimbBase])

\* The sum of f[i] over i in S, for f[i] >= 0.
Sum(f, S) == BagCardinality([i \in {j \in S : f[j] > 0} |-> f[i]])

\* a * b: column k gathers the low digits of the products a[i] * b[j] with
\* i + j = k + 1 and the high digits of those with i + j = k.
NMul(a, b) ==
    IF Len(a) = 0 \/ Len(b) = 0 THEN <<>>
    ELSE LET n == Len(a) + Len(b)
             prod == [i \in 1..Len(a) |-> [j \in 1..Len(b) |-> a[i] * b[j]]]
             col(k) ==
                Sum([i \in 1..Len(a) |->
                        (IF k + 1 - i >= 1 /\ k + 1 - i <= Len(b)
                         THEN prod[i][k + 1 - i] % LimbBase ELSE 0)
                        + (IF k - i >= 1 /\ k - i <= Len(b)
                           THEN prod[i][k - i] \div LimbBase ELSE 0)],
                    1..Len(a))
             cols == [k \in 1..n |-> col(k)]
         IN NAdd([k \in 1..n |-> cols[k] % LimbBase],
                 <<0>> \o [k \in 1..n |-> cols[k] \div LimbBase])

NBitLen(a) == IF Len(a) = 0 THEN 0 ELSE LimbBits * (Len(a) - 1) + BitLen(a[Len(a)])
\* bit i of a (bit 0 the least significant)
NBit(a, i) ==
    IF i \div LimbBits >= Len(a) THEN 0
    ELSE (a[i \div LimbBits + 1] \div Pow2(i % LimbBits)) % 2
\* a * 2^k
NShl(a, k) == NShiftLimbs(NScale(a, Pow2(k % LimbBits)), k \div LimbBits)
\* a \div 2^k
NShr(a, k) ==
    IF Len(a) = 0 THEN <<>>
    ELSE
    LET d == k \div LimbBits
        s == k % LimbBits
        b == IF d >= Len(a) THEN <<>> ELSE SubSeq(a, d + 1, Len(a))
    IN NTrim([i \in 1..Len(b) |->
                (b[i] \div Pow2(s))
                + (IF i < Len(b) THEN (b[i + 1] % Pow2(s)) * Pow2(LimbBits - s) ELSE 0)])
\* a % 2^k
NLow(a, k) ==
    LET d == k \div LimbBits
        s == k % LimbBits
    IN IF d >= Len(a) THEN a
       ELSE NTrim(SubSeq(a, 1, d) \o <<a[d + 1] % Pow2(s)>>)

\* The number of factors 2 of one digit k > 0.
Twos(k) == CHOOSE t \in 0..(LimbBits - 1) : k % Pow2(t) = 0 /\ (k \div Pow2(t)) % 2 = 1
\* The number of factors 2 of a > 0.
NTwos(a) ==
    LET i == CHOOSE k \in 1..Len(a) : a[k] # 0 /\ \A j \in 1..(k - 1) : a[j] = 0
    IN LimbBits * (i - 1) + Twos(a[i])

\* One digit of a long division: the d with d * b <= r < (d + 1) * b, for
\* r < LimbBase * b and b with its leading digit LimbBase / 2 or more; the
\* leading digits of r and b give it to within 2.
NDigit(r, b) ==
    IF NCmp(r, b) < 0 THEN 0
    ELSE LET n == Len(b)
             est == (Digit(r, n + 1) * LimbBase + Digit(r, n)) \div b[n]
             top == IF est > LimbBase - 1 THEN LimbBase - 1 ELSE est
         IN CHOOSE d \in {top, top - 1, top - 2} :
                d >= 0 /\ NCmp(NScale(b, d), r) <= 0 /\ NCmp(NScale(b, d + 1), r) > 0
\* One step of the long division by b: the next digit of the dividend joins
\* the remainder st.r, and the quotient st.q gains a digit.
NDivStep(digit, b, st) ==
    LET r == IF Len(st.r) = 0 THEN NTrim(<<digit>>) ELSE <<digit>> \o st.r
        d == NDigit(r, b)
    IN [q |-> <<d>> \o st.q, r |-> NSub(r, NScale(b, d))]
\* Long division of a by b > 0, from the leading digit of a down; st.q holds
\* the quotient digits found so far.
RECURSIVE NDivFrom(_, _, _)
NDivFrom(a, b, st) ==
    IF Len(st.q) = Len(a) THEN st
    ELSE NDivFrom(a, b, NDivStep(a[Len(a) - Len(st.q)], b, st))
\* a \div b and a % b, for b > 0: both are scaled to bring the leading digit
\* of b to LimbBase / 2 or more, which leaves the quotient as it is.
NDivMod(a, b) ==
    LET s == LimbBits - BitLen(b[Len(b)])
        dm == NDivFrom(NShl(a, s), NShl(b, s), [q |-> <<>>, r |-> <<>>])
    IN [q |-> NTrim(dm.q), r |-> NShr(dm.r, s)]

\* ------------------------------------------------------------------ f64
\* binary64: finite values lie below 2^EMax; the least subnormal is 2^EMinSub;
\* a significand holds Precision bits.
EMax == 1024
EMinSub == -1074
Precision == 53

NaN == [cls |-> "nan", neg |-> FALSE, m |-> <<>>, e |-> 0]
Inf(neg) == [cls |-> "inf", neg |-> neg, m |-> <<>>, e |-> 0]
Zero(neg) == [cls |-> "zero", neg |-> neg, m |-> <<>>, e |-> 0]
\* The finite value (-1)^neg * m * 2^e, m the digits of an odd number.
F64(neg, m, e) == [cls |-> "fin", neg |-> neg, m |-> m, e |-> e]
\* The same for an odd m small enough to be written as an integer.
Fin(neg, m, e) == F64(neg, NOf(m), e)
\* A local that no statement has assigned yet.
Unset == [cls |-> "unset", neg |-> FALSE, m |-> <<>>, e |-> 0]

\* m * 2^e with the factors 2 of m > 0 moved into the exponent.
Odd(neg, m, e) == F64(neg, NShr(m, NTwos(m)), e + NTwos(m))

\* The f64 nearest to m * 2^e for a natural number m > 0: the value is
\* rounded at the last place of a 53-bit significand, or at 2^EMinSub below
\* the normal range, ties to the even neighbour; beyond the largest finite
\* value it is an infinity.
Round(neg, m, e) ==
    LET top == e + NBitLen(m)
        q == IF top - Precision > EMinSub THEN top - Precision ELSE EMinSub
    IN IF e >= q THEN (IF top > EMax THEN Inf(neg) ELSE Odd(neg, m, e))
       ELSE IF q - e > NBitLen(m) THEN Zero(neg)
       ELSE LET k == q - e
                keep == NShr(m, k)
                c == NCmp(NLow(m, k), NShl(<<1>>, k - 1))
                up == c > 0 \/ (c = 0 /\ NBit(keep, 0) = 1)
                r == IF up THEN NAdd(keep, <<1>>) ELSE keep
            IN IF Len(r) = 0 THEN Zero(neg)
               ELSE IF q + NBitLen(r) > EMax THEN Inf(neg)
               ELSE Odd(neg, r, q)

One == Fin(FALSE, 1, 0)
\* The literal 100.0 = 25 * 2^2.
Hundred == Fin(FALSE, 25, 2)

\* `k as f64` for a u32 k (exact: 32 bits fit the significand).
AsF64(k) == IF k = 0 THEN Zero(FALSE) ELSE Odd(FALSE, NOf(k), 0)

\* a * b
FMul(a, b) ==
    IF a.cls = "nan" \/ b.cls = "nan" THEN NaN
    ELSE IF (a.cls = "inf" /\ b.cls = "zero") \/ (a.cls = "zero" /\ b.cls = "inf") THEN NaN
    ELSE IF a.cls = "inf" \/ b.cls = "inf" THEN Inf(a.neg # b.neg)
    ELSE IF a.cls = "zero" \/ b.cls = "zero" THEN Zero(a.neg # b.neg)
    ELSE Round(a.neg # b.neg, NMul(a.m, b.m), a.e + b.e)

\* a / b.  The quotient of the significands is taken to Precision + 2 bits
\* or more, with one more bit that tells whether anything is left over,
\* and rounded once.
FDiv(a, b) ==
    IF a.cls = "nan" \/ b.cls = "nan" THEN NaN
    ELSE IF (a.cls = "inf" /\ b.cls = "inf") \/ (a.cls = "zero" /\ b.cls = "zero") THEN NaN
    ELSE IF a.cls = "inf" THEN Inf(a.neg # b.neg)
    ELSE IF b.cls = "inf" THEN Zero(a.neg # b.neg)
    ELSE IF b.cls = "zero" THEN Inf(a.neg # b.neg)
    ELSE IF a.cls = "zero" THEN Zero(a.neg # b.neg)
    ELSE LET gap == Precision + 3 + NBitLen(b.m) - NBitLen(a.m)
             s == IF gap > 0 THEN gap ELSE 0
             dm == NDivMod(NShl(a.m, s), b.m)
             sticky == IF Len(dm.r) = 0 THEN <<>> ELSE <<1>>
         IN Round(a.neg # b.neg, NAdd(NScale(dm.q, 2), sticky), a.e - b.e - s - 1)

\* a + b.  When b lies below a quarter of a's unit in the last place the sum
\* rounds to a; otherwise the exact sum is formed and rounded.
FAdd(a, b) ==
    IF a.cls = "nan" \/ b.cls = "nan" THEN NaN
    ELSE IF a.cls = "inf" /\ b.cls = "inf" THEN (IF a.neg = b.neg THEN a ELSE NaN)
    ELSE IF a.cls = "inf" THEN a
    ELSE IF b.cls = "inf" THEN b
    ELSE IF a.cls = "zero" /\ b.cls = "zero" THEN Zero(a.neg /\ b.neg)
    ELSE IF a.cls = "zero" THEN b
    ELSE IF b.cls = "zero" THEN a
    ELSE LET topa == a.e + NBitLen(a.m)
             topb == b.e + NBitLen(b.m)
         IN IF topb <= topa - (Precision + 2) THEN a
            ELSE IF topa <= topb - (Precision + 2) THEN b
            ELSE LET lo == IF a.e < b.e THEN a.e ELSE b.e
                     sa == NShl(a.m, a.e - lo)
                     sb == NShl(b.m, b.e - lo)
                     c == NCmp(sa, sb)
                 IN IF a.neg = b.neg THEN Round(a.neg, NAdd(sa, sb), lo)
                    ELSE IF c = 0 THEN Zero(FALSE)
                    ELSE IF c > 0 THEN Round(a.neg, NSub(sa, sb), lo)
                    ELSE Round(b.neg, NSub(sb, sa), lo)

\* A power under computation: a positive real of which m * 2^e is a lower
\* bound, exact where nothing has been cut off; or a power that has left
\* the range of f64 for good: Over at 2^(EMax + 1) and above, Under below
\* 2^(EMinSub - 2).
Over == [sat |-> "over", m |-> <<>>, e |-> 0, exact |-> FALSE]
Under == [sat |-> "under", m |-> <<>>, e |-> 0, exact |-> FALSE]
Approx(m, e, exact) == [sat |-> "no", m |-> m, e |-> e, exact |-> exact]
\* m * 2^e cut down to its leading `limbs` digits.
Trunc(limbs, m, e, exact) ==
    IF Len(m) <= limbs THEN Approx(m, e, exact)
    ELSE LET d == Len(m) - limbs
         IN Approx(SubSeq(m, d + 1, Len(m)), e + LimbBits * d,
                   exact /\ \A i \in 1..d : m[i] = 0)
Sat(a) ==
    LET top == a.e + NBitLen(a.m)
    IN IF top > EMax + 1 THEN Over ELSE IF top < EMinSub - 2 THEN Under ELSE a

\* The bits of a > 0, the most significant first.
NBits(a) == [i \in 1..NBitLen(a) |-> NBit(a, NBitLen(a) - i)]

\* One bit of the exponent: acc squared, times x where the bit is set, kept
\* to `limbs` digits.
PowStep(limbs, x, bit, acc) ==
    LET sq == Sat(Trunc(limbs, NMul(acc.m, acc.m), 2 * acc.e, acc.exact))
    IN IF bit = 1 /\ sq.sat = "no"
       THEN Sat(Trunc(limbs, NMul(sq.m, x.m), sq.e + x.e, sq.exact)) ELSE sq
\* x^k by squaring: k is given by its bits, acc is x^(the bits before i).
RECURSIVE PowFrom(_, _, _, _, _)
PowFrom(limbs, x, bits, i, acc) ==
    IF i > Len(bits) \/ acc.sat # "no" THEN acc
    ELSE PowFrom(limbs, x, bits, i + 1, PowStep(limbs, x, bits[i], acc))

\* Bits kept beyond the significand and the doublings of the error, so that
\* an f64 lies between the bounds of a power only when the power lies within
\* 2^-GuardBits of it.
GuardBits == 40
\* The digits to carry for an exponent of s bits: with `limbs` digits each
\* cut loses less than 2^-(LimbBits * (limbs - 1)) of the value, each of the
\* s squarings doubles what was lost before it, and the power lies below
\* its lower bound times 1 + 2^-(Precision + GuardBits).
PowLimbs(s) == (Precision + GuardBits + s + 3) \div LimbBits + 2
\* The upper bound that goes with the lower bound a.
Above(a) ==
    IF a.sat # "no" \/ a.exact THEN a
    ELSE Approx(NAdd(NShl(a.m, Precision + GuardBits), a.m), a.e - (Precision + GuardBits), FALSE)

\* The f64 next to m * 2^e, m > 0, on the side of zero, or on the far side
\* where `away` is set; m * 2^e itself where it is an f64.  From 2^EMax on it
\* is an infinity.
Beside(neg, m, e, away) ==
    LET top == e + NBitLen(m)
        q == IF top - Precision > EMinSub THEN top - Precision ELSE EMinSub
    IN IF top > EMax THEN Inf(neg)
       ELSE IF e >= q THEN Odd(neg, m, e)
       ELSE IF q - e > NBitLen(m) THEN (IF away THEN F64(neg, <<1>>, q) ELSE Zero(neg))
       ELSE LET k == q - e
                keep == NShr(m, k)
                r == IF away /\ Len(NLow(m, k)) # 0 THEN NAdd(keep, <<1>>) ELSE keep
            IN IF Len(r) = 0 THEN Zero(neg)
               ELSE IF q + NBitLen(r) > EMax THEN Inf(neg)
               ELSE Odd(neg, r, q)

\* The f64 a power between the bounds lo and hi may come back as: the two
\* f64 it lies between (one value where it is an f64 itself), and whatever
\* f64 lies between the bounds.
Within(neg, lo, hi) ==
    IF lo.sat = "over" THEN {Inf(neg)}
    ELSE IF lo.sat = "under" THEN {Zero(neg)}
    ELSE {Beside(neg, lo.m, lo.e, FALSE), Round(neg, lo.m, lo.e),
          Round(neg, hi.m, hi.e), Beside(neg, hi.m, hi.e, TRUE)}

\* x.powf(y) (C99 pow), as the set of the values the call may return.
\* pow(x, 0) = 1 and pow(1, y) = 1 even for NaN.  The callers pass y = n * t
\* with n and t converted from u32, a non-negative integer below 2^64; other
\* exponents have no arm.  Rust leaves the precision of powf unspecified and
\* the C library's pow is not correctly rounded (3.0^34 lies midway between
\* two f64 and comes back as the odd one): the power of a finite x is either
\* of the two f64 that x^y lies between, an error below one unit in the last
\* place, and x^y itself where that is an f64.
FPow(x, y) ==
    IF y.cls = "zero" THEN {One}
    ELSE IF x = One THEN {One}
    ELSE IF x.cls = "nan" \/ y.cls = "nan" THEN {NaN}
    ELSE CASE y.cls = "fin" /\ ~y.neg /\ y.e >= 0 ->
        LET odd == y.e = 0
            neg == x.neg /\ odd
        IN IF x.cls = "zero" THEN {Zero(neg)}
           ELSE IF x.cls = "inf" THEN {Inf(neg)}
           ELSE IF x.m = <<1>> /\ x.e = 0 THEN {F64(neg, <<1>>, 0)}
           ELSE LET bits == NBits(y.m) \o [i \in 1..y.e |-> 0]
                    lo == PowFrom(PowLimbs(Len(bits)), x, bits, 1, Approx(<<1>>, 0, TRUE))
                IN Within(neg, lo, Above(lo))

\* ------------------------------------------------- the statements of lib.rs
\* let r = rate / 100.0;                       (lines 7 and 19)
Let_r(rate) == FDiv(rate, Hundred)
\* Mutant: zero periods are taken for one.
Let_n_clamped(times_per_year) == AsF64(IF times_per_year = 0 THEN 1 ELSE times_per_year)
\* let n = times_per_year as f64;
Let_n(times_per_year) == AsF64(times_per_year)
\* Mutant: years + 1.
Let_t_plus_one(years) == AsF64(years + 1)
\* Mutant: years narrowed to 8 bits on the way.
Let_t_u8(years) == AsF64(years % 256)
\* let t = years as f64;                       (lines 9 and 20)
Let_t(years) == AsF64(years)
\* Mutant: (1.0 + r) / n.
Let_body_precedence(r, n) == FDiv(FAdd(One, r), n)
\* let body = 1.0 + (r / n);
Let_body(r, n) == FAdd(One, FDiv(r, n))
\* Mutant: the compounding frequency is left out of the exponent.
Let_exponent_years_only(n, t) == t
\* Mutant: n + t.
Let_exponent_sum(n, t) == FAdd(n, t)
\* let exponent = n * t;
Let_exponent(n, t) == FMul(n, t)
\* let denominator = (1.0 + r).powf(t);  The values it may bind.
Let_denominator(r, t) == FPow(FAdd(One, r), t)

\* PyResult<f64>: Ok(v), the only constructor either function uses.
Ok(v) == [ok |-> TRUE, val |-> v]
\* What an Err(_) would be; also stands for "no result yet".
Err == [ok |-> FALSE, val |-> Unset]

\* Mutant: the result is added to a static that keeps the last result
\* returned to thread 1.
Ok_compound_accumulating(principal, body, exponent) ==
    {Ok(FAdd(FMul(principal, p), IF ret[1].res.ok THEN ret[1].res.val ELSE Zero(FALSE))) :
        p \in FPow(body, exponent)}
\* Mutant: a fraction that is not finite is rejected.
Ok_compound_validated(principal, body, exponent) ==
    IF body.cls \in {"inf", "nan"} THEN {Err}
    ELSE {Ok(FMul(principal, p)) : p \in FPow(body, exponent)}
\* Ok(principal * body.powf(exponent)): the results it may hand back, one
\* for each value of the power.
Ok_compound(principal, body, exponent) == {Ok(FMul(principal, p)) : p \in FPow(body, exponent)}
\* Mutant: amount * denominator.
Ok_inflation_times(amount, denominator) == Ok(FMul(amount, denominator))
\* Ok(amount / denominator)
Ok_inflation(amount, denominator) == Ok(FDiv(amount, denominator))

\* A whole call, run alone from entry to return: the results it may return.
calculate_compound_interest(principal, rate, times_per_year, years) ==
    LET r == Let_r(rate)
        n == Let_n(times_per_year)
        t == Let_t(years)
        body == Let_body(r, n)
        exponent == Let_exponent(n, t)
    IN Ok_compound(principal, body, exponent)

calculate_inflation_impact(amount, inflation_rate, years) ==
    LET r == Let_r(inflation_rate)
        t == Let_t(years)
    IN {Ok_inflation(amount, denominator) : denominator \in Let_denominator(r, t)}

\* ------------------------------------------------------------ the host
\* Host threads call the two functions.  Each call runs statement by
\* statement on the locals of its own stack frame; the steps of different
\* threads interleave freely.
Threads == {1, 2}

\* Calls the two-thread host issues in one run.
MaxCalls == 3
\* Years run over 0..MaxYears, over the years of the examples of the
\* specification, over HardYears, where the C library's pow returns the
\* farther of the two f64 around the power (3.0^34, 1.035^126, 1.01^346), and
\* over LongYears, where powers reach the end of the range of f64 (3.0^646 is
\* just below 2^1024) and leave it.
MaxYears == 3
ExampleYears == {5, 10}
HardYears == {34, 126, 346}
LongYears == {646, 1100}
\* The years of the two-thread host run over 0..MaxPairYears.
MaxPairYears == 1

F1000 == Fin(FALSE, 125, 3)
\* 2^-1074, the least positive f64.
Least == Fin(FALSE, 1, -1074)
\* 2^1000: its products and quotients overflow.
Huge == Fin(FALSE, 1, 1000)
MinusHundred == Fin(TRUE, 25, 2)
\* 100 * 2^-60: a positive rate whose fraction r vanishes in 1.0 + r.
TinyRate == Fin(FALSE, 25, -58)
\* 100 * 2^-52: the positive rate with 1.0 + r = 1 + 2^-52, the f64 after 1.
EpsilonRate == Fin(FALSE, 25, -50)
\* -99.99, the f64 nearest to it: 1.0 + r is a ten-thousandth of r.
NearMinusHundred == F64(TRUE, <<17039, 20971, 32112, 199>>, -46)

Principals == {Zero(FALSE), F1000, Fin(TRUE, 125, 3), Least, Huge, Inf(FALSE), NaN}
\* 0, 1, 3.5, 5, 200, -99.99, -100, -200 percent, the tiny rates, +infinity
\* and NaN.
Rates == {Zero(FALSE), Fin(FALSE, 1, 0), Fin(FALSE, 7, -1), Fin(FALSE, 5, 0), Fin(FALSE, 25, 3),
          NearMinusHundred, MinusHundred, Fin(TRUE, 25, 3), TinyRate, EpsilonRate,
          Inf(FALSE), NaN}
\* 0, 1, 3, 200, -99.99, -100, -200 percent, the tiny rates, +infinity and NaN.
InflationRates == {Zero(FALSE), Fin(FALSE, 1, 0), Fin(FALSE, 3, 0), Fin(FALSE, 25, 3),
                   NearMinusHundred, MinusHundred, Fin(TRUE, 25, 3), TinyRate, EpsilonRate,
                   Inf(FALSE), NaN}
Periods == {0, 1, 12}
Years == (0..MaxYears) \cup ExampleYears \cup HardYears \cup LongYears

\* The smaller sets of the two-thread host: 0 and 1000; 100 and -100 percent.
PairPrincipals == {Zero(FALSE), F1000}
PairRates == {Fin(FALSE, 25, 2), MinusHundred}
PairPeriods == {2}
PairYears == 0..MaxPairYears

\* A call as its caller sees it: the function, the arguments (x is principal
\* or amount) and no, the call's number in the order of issue.
NoCall == [fn |-> "none", x |-> Unset, rate |-> Unset, times_per_year |-> 0, years |-> 0,
           no |-> 0]
NoRet == [call |-> NoCall, res |-> Err]
NoFrame == [principal |-> Unset, amount |-> Unset, rate |-> Unset, inflation_rate |-> Unset,
            times_per_year |-> 0, years |-> 0,
            r |-> Unset, n |-> Unset, t |-> Unset, body |-> Unset, exponent |-> Unset,
            denominator |-> Unset]

\* Mutant: the locals are statics, one frame for every thread.
slot_shared(th) == 1
\* The stack frame a thread's call runs on: its own.
slot(th) == th

Init ==
    /\ pc = [th \in Threads |-> "idle"]
    /\ call = [th \in Threads |-> NoCall]
    /\ frame = [s \in Threads |-> NoFrame]
    /\ ret = [th \in Threads |-> NoRet]
    /\ issued = 0

\* The wrapper extracts the arguments into the callee's frame (line 6).
CallCompound(th, cap, Ps, Rs, Ns, Ys) ==
    /\ pc[th] = "idle"
    /\ issued < cap
    /\ \E principal \in Ps, rate \in Rs, times_per_year \in Ns, years \in Ys :
        /\ call' = [call EXCEPT ![th] = [fn |-> "compound", x |-> principal, rate |-> rate,
                                         times_per_year |-> times_per_year, years |-> years,
                                         no |-> issued + 1]]
        /\ frame' = [frame EXCEPT ![slot(th)] =
                        [@ EXCEPT !.principal = principal, !.rate = rate,
                                  !.times_per_year = times_per_year, !.years = years]]
    /\ pc' = [pc EXCEPT ![th] = "c7"]
    /\ ret' = [ret EXCEPT ![th] = NoRet]
    /\ issued' = issued + 1

\* Line 18.
CallInflation(th, cap, As, Rs, Ys) ==
    /\ pc[th] = "idle"
    /\ issued < cap
    /\ \E amount \in As, inflation_rate \in Rs, years \in Ys :
        /\ call' = [call EXCEPT ![th] = [fn |-> "inflation", x |-> amount,
                                         rate |-> inflation_rate,
                                         times_per_year |-> 0, years |-> years,
                                         no |-> issued + 1]]
        /\ frame' = [frame EXCEPT ![slot(th)] =
                        [@ EXCEPT !.amount = amount, !.inflation_rate = inflation_rate,
                                  !.years = years]]
    /\ pc' = [pc EXCEPT ![th] = "i19"]
    /\ ret' = [ret EXCEPT ![th] = NoRet]
    /\ issued' = issued + 1

\* One statement of a call: thread th at `at` assigns local `field` and moves on.
Assign(th, at, field, value, next) ==
    /\ pc[th] = at
    /\ frame' = [frame EXCEPT ![slot(th)] = [@ EXCEPT ![field] = value]]
    /\ pc' = [pc EXCEPT ![th] = next]
    /\ UNCHANGED <<call, ret, issued>>

\* The host takes the result of the call thread th has returned from, and
\* the thread is free for its next call.
Take(th) ==
    /\ pc[th] = "idle"
    /\ ret[th] # NoRet
    /\ call' = [call EXCEPT ![th] = NoCall]
    /\ ret' = [ret EXCEPT ![th] = NoRet]
    /\ issued' = issued - 1
    /\ UNCHANGED <<pc, frame>>

\* The return: the result reaches the caller and the frame is popped.
Return(th, at, result) ==
    /\ pc[th] = at
    /\ ret' = [ret EXCEPT ![th] = [call |-> call[th], res |-> result]]
    /\ frame' = [frame EXCEPT ![slot(th)] = NoFrame]
    /\ pc' = [pc EXCEPT ![th] = "idle"]
    /\ UNCHANGED <<call, issued>>

\* calculate_compound_interest, lines 7 to 12.
Line7(th) == Assign(th, "c7", "r", Let_r(frame[slot(th)].rate), "c8")
Line8(th) == Assign(th, "c8", "n", Let_n(frame[slot(th)].times_per_year), "c9")
Line9(th) == Assign(th, "c9", "t", Let_t(frame[slot(th)].years), "c10")
Line10(th) == Assign(th, "c10", "body", Let_body(frame[slot(th)].r, frame[slot(th)].n), "c11")
Line11(th) ==
    Assign(th, "c11", "exponent", Let_exponent(frame[slot(th)].n, frame[slot(th)].t), "c12")
Line12(th) ==
    /\ pc[th] = "c12"
    /\ \E result \in Ok_compound(frame[slot(th)].principal, frame[slot(th)].body,
                                 frame[slot(th)].exponent) :
            Return(th, "c12", result)

\* calculate_inflation_impact, lines 19 to 22.
Line19(th) == Assign(th, "i19", "r", Let_r(frame[slot(th)].inflation_rate), "i20")
Line20(th) == Assign(th, "i20", "t", Let_t(frame[slot(th)].years), "i21")
Line21(th) ==
    /\ pc[th] = "i21"
    /\ \E denominator \in Let_denominator(frame[slot(th)].r, frame[slot(th)].t) :
            Assign(th, "i21", "denominator", denominator, "i22")
Line22(th) ==
    Return(th, "i22", Ok_inflation(frame[slot(th)].amount, frame[slot(th)].denominator))

Step(th) ==
    \/ Line7(th) \/ Line8(th) \/ Line9(th) \/ Line10(th) \/ Line11(th) \/ Line12(th)
    \/ Line19(th) \/ Line20(th) \/ Line21(th) \/ Line22(th)

\* A host with one thread, calling over the wide input sets, one call after
\* another without end: the thread has one call under way at most, and
\* takes its result before the next.
Next ==
    \/ CallCompound(1, 1, Principals, Rates, Periods, Years)
    \/ CallInflation(1, 1, Principals, InflationRates, Years)
    \/ Step(1)
    \/ Take(1)

Spec == Init /\ [][Next]_vars

\* The same host calling with finite principals and positive rates only:
\* the calls whose results are compared from year to year.
FinitePrincipals == {x \in Principals : x.cls \in {"zero", "fin"}}
PositiveRates == {rate \in Rates : rate.cls = "fin" /\ ~rate.neg}
PositiveInflationRates == {rate \in InflationRates : rate.cls = "fin" /\ ~rate.neg}
NextYears ==
    \/ CallCompound(1, 1, FinitePrincipals, PositiveRates, Periods, Years)
    \/ CallInflation(1, 1, FinitePrincipals, PositiveInflationRates, Years)
    \/ Step(1)
    \/ Take(1)

SpecYears == Init /\ [][NextYears]_vars

\* A host with two threads and no synchronization, which keeps the results
\* of the calls to compare them.
NextConc ==
    \E th \in Threads :
        \/ CallCompound(th, MaxCalls, PairPrincipals, PairRates, PairPeriods, PairYears)
        \/ CallInflation(th, MaxCalls, PairPrincipals, PairRates, PairYears)
        \/ Step(th)

SpecConc == Init /\ [][NextConc]_vars

\* ------------------------------------------------- reference arithmetic
\* The real numbers the results are compared with: magnitudes m * 2^e with
\* m any natural number, held exactly, and fractions of natural numbers.
Mag(m, e) == [m |-> m, e |-> e]
\* |f| for a finite f64
MagOf(f) == Mag(f.m, f.e)
\* 2^(TopOf(a) - 1) <= a < 2^TopOf(a), for a > 0
TopOf(a) == a.e + NBitLen(a.m)
MTimes(a, b) == Mag(NMul(a.m, b.m), a.e + b.e)
MScale(a, n) == Mag(NMul(a.m, n), a.e)
\* a <= b
MLe(a, b) ==
    LET lo == IF a.e < b.e THEN a.e ELSE b.e
    IN IF Len(a.m) = 0 THEN TRUE
       ELSE IF Len(b.m) = 0 THEN FALSE
       ELSE IF TopOf(a) # TopOf(b) THEN TopOf(a) < TopOf(b)
       ELSE NCmp(NShl(a.m, a.e - lo), NShl(b.m, b.e - lo)) <= 0
\* a + b
MAdd(a, b) ==
    LET lo == IF a.e < b.e THEN a.e ELSE b.e
    IN IF Len(a.m) = 0 THEN b
       ELSE IF Len(b.m) = 0 THEN a
       ELSE Mag(NAdd(NShl(a.m, a.e - lo), NShl(b.m, b.e - lo)), lo)
\* a lies in the normal range of f64, two binades off its ends.
InRange(a) == TopOf(a) > EMinSub + Precision /\ TopOf(a) < EMax - 1

\* 1 + rate / (100 * n) for a finite rate and n >= 1, in exact arithmetic:
\* the fraction num / den with its sign, and q / den = |rate / (100 * n)|.
BodyFraction(rate, n) ==
    LET d0 == NOf(100 * n)
        den == IF rate.cls = "fin" /\ rate.e < 0 THEN NShl(d0, 0 - rate.e) ELSE d0
        q == IF rate.cls = "zero" THEN <<>>
             ELSE IF rate.e < 0 THEN rate.m ELSE NShl(rate.m, rate.e)
        c == NCmp(q, den)
    IN IF rate.cls = "zero" \/ ~rate.neg
       THEN [neg |-> FALSE, num |-> NAdd(den, q), den |-> den, q |-> q]
       ELSE IF c <= 0 THEN [neg |-> FALSE, num |-> NSub(den, q), den |-> den, q |-> q]
       ELSE [neg |-> TRUE, num |-> NSub(q, den), den |-> den, q |-> q]

\* The condition of the sum for a fraction b # 0: |rate / (100 * n)| over
\* |1 + rate / (100 * n)|, rounded up to a whole number.  The rounding of r
\* and of r / n shows that many times larger in 1 + r / n.
Condition(b) ==
    IF Len(b.q) = 0 THEN <<>>
    ELSE LET dm == NDivMod(b.q, b.num)
         IN IF Len(dm.r) = 0 THEN dm.q ELSE NAdd(dm.q, <<1>>)
\* The rounding errors the sum 1 + r / n may carry, in units of 2^-Precision
\* of its value: one of the sum itself, and two, of r and r / n, times the
\* condition; one more covers the terms of second order.
BodyUlps(cond) == NShl(NAdd(cond, <<1>>), 1)
\* The rounding errors a result may carry: those of the sum enter the power
\* k times; the power adds two (an error below one unit in the last place)
\* and the last operation one; 2 * k more cover the terms of second order.
Ulps(cond, k) == NAdd(NMul(NOf(k), NShl(NAdd(cond, <<2>>), 1)), <<3>>)
\* The same against the power of the f64 sum, taken exactly: those of the
\* power and of the last operation remain.
LastUlps == <<4>>
\* Up to this many bits of Ulps the terms of second order stay below one unit.
UlpsBits == Precision \div 2

\* Bounds of x^k for a magnitude x > 0 and k >= 1: lo below it or equal, hi
\* above or equal, the two apart by 2^-(Precision + GuardBits) of the value;
\* Over or Under where the power has left the range of f64.
PowerBounds(limbs, x, bits, exact) ==
    LET lo == PowFrom(limbs, x, bits, 1, Approx(<<1>>, 0, exact))
    IN [lo |-> lo, hi |-> Above(lo)]
\* Those of |body|^k for a finite f64 body # 0.
BodyPower(body, k) ==
    LET bits == NBits(NOf(k))
    IN PowerBounds(PowLimbs(Len(bits)), MagOf(body), bits, TRUE)
\* Those of |b|^k for a fraction b # 0.
RefPower(b, k) ==
    LET bits == NBits(NOf(k))
        limbs == PowLimbs(Len(bits) + 1)
        gap == LimbBits * limbs + NBitLen(b.den) - NBitLen(b.num)
        s == IF gap > 0 THEN gap ELSE 0
        dm == NDivMod(NShl(b.num, s), b.den)
    IN PowerBounds(limbs, Mag(dm.q, 0 - s), bits, Len(dm.r) = 0)

\* v lies within ulps * 2^-Precision, relatively, of a real between lo and hi.
Near(v, lo, hi, ulps) ==
    LET one == NShl(<<1>>, Precision)
    IN /\ NCmp(ulps, one) >= 0 \/ MLe(MScale(lo, NSub(one, ulps)), MScale(v, one))
       /\ MLe(MScale(v, one), MScale(hi, NAdd(one, ulps)))

\* Half the spacing of the f64 below the normal range, twice: what the
\* rounding of a result adds where the result is not normal.  Taken as
\* nothing for a result of 2^top or so that lies far above it.
Slack(top) == IF top > EMinSub + 3 * Precision THEN Mag(<<>>, 0) ELSE Mag(<<1>>, EMinSub)
\* v lies within ulps * 2^-Precision, relatively, and 2^EMinSub of a real
\* between lo and hi; ulps < 2^Precision.
NearBy(v, lo, hi, ulps) ==
    LET one == NShl(<<1>>, Precision)
        s == Slack(TopOf(hi))
    IN /\ MLe(MScale(lo, NSub(one, ulps)), MScale(MAdd(v, s), one))
       /\ MLe(MScale(v, one), MAdd(MScale(hi, NAdd(one, ulps)), MScale(s, one)))
\* v lies within ulps * 2^-Precision, relatively, and 2^EMinSub of a / d,
\* for every d between lo and hi; ulps < 2^Precision.
NearQuotientBy(v, a, lo, hi, ulps) ==
    LET one == NShl(<<1>>, Precision)
        s == Slack(TopOf(a) - TopOf(lo) + 1)
    IN /\ MLe(MScale(a, NSub(one, ulps)), MScale(MTimes(MAdd(v, s), hi), one))
       /\ MLe(MScale(MTimes(v, lo), one),
              MAdd(MScale(a, NAdd(one, ulps)), MScale(MTimes(s, lo), one)))

\* IEEE comparisons: NaN compares with nothing, the two zeros are equal.
Sign(f) == IF f.cls = "zero" THEN 0 ELSE IF f.neg THEN -1 ELSE 1
\* |a| < |b| for nonzero a and b.
MagLt(a, b) ==
    IF a.cls = "inf" THEN FALSE
    ELSE IF b.cls = "inf" THEN TRUE
    ELSE ~MLe(MagOf(b), MagOf(a))
FLt(a, b) ==
    /\ a.cls # "nan" /\ b.cls # "nan"
    /\ IF Sign(a) # Sign(b) THEN Sign(a) < Sign(b)
       ELSE IF Sign(a) = 0 THEN FALSE
       ELSE IF Sign(a) = 1 THEN MagLt(a, b) ELSE MagLt(b, a)
Finite(f) == f.cls \in {"zero", "fin"}
\* A finite f64 of 2^-1022 or more in magnitude: one with a full significand.
Normal(f) == f.cls = "fin" /\ f.e + NBitLen(f.m) > EMinSub + Precision - 1

\* ---------------------------------------------------------------- claims
\* The call thread th last returned from, and what it returned.
Returned(th, fn) == ret[th].call.fn = fn
F64Classes == {"zero", "fin", "inf", "nan"}

\* x times an infinity, and x over a zero, of the sign neg.
ToInfinity(x, neg) == IF x.cls \in {"zero", "nan"} THEN NaN ELSE Inf(neg)
\* x times a zero, and x over an infinity, of the sign neg.
ToZero(x, neg) == IF x.cls \in {"inf", "nan"} THEN NaN ELSE Zero(neg)

\* The sum 1 + r/n as the statements give it against 1 + rate / (100 * n) in
\* exact arithmetic: the infinity of an infinite rate; 0 where that is 0;
\* otherwise finite and within BodyUlps units of 2^-53 of it, with its sign
\* where those are less than the whole value.
BodyNear(body, rate, b) ==
    IF rate.cls = "inf" THEN body = Inf(rate.neg)
    ELSE IF Len(b.num) = 0 THEN body = Zero(FALSE)
    ELSE LET num == Mag(b.num, 0)
             ulps == BodyUlps(Condition(b))
         IN /\ Finite(body)
            /\ Near(MTimes(MagOf(body), Mag(b.den, 0)), num, num, ulps)
            /\ (body.cls = "fin" /\ NBitLen(ulps) <= Precision) => body.neg = b.neg

\* A result of the sign neg for a finite x # 0: not NaN.
Signed(v, neg) == v.cls \in {"zero", "fin", "inf"} /\ v.neg = neg
\* The power lies between the normal range as InRange has it and overflow:
\* powf returns an f64 around it or the infinity.  Otherwise, outside that
\* range, it lies between underflow and the range: powf returns an f64
\* around it, which may be 0.
High(p) == TopOf(p.hi) >= EMax - 1

\* v against x times a real between p.lo and p.hi, for a finite x # 0 and
\* p in the normal range: of the sign neg; finite and within ulps units of
\* 2^-53, and 2^-1074 where not normal, or infinite for a product of 2^1023
\* or more.
Product(x, v, neg, p, ulps) ==
    LET lo == MTimes(MagOf(x), p.lo)
        hi == MTimes(MagOf(x), p.hi)
    IN /\ Signed(v, neg)
       /\ v.cls = "inf" => TopOf(hi) >= EMax
       /\ v.cls # "inf" => NearBy(MagOf(v), lo, hi, ulps)

\* v against x times a power p outside the normal range and not saturated.
\* Towards overflow the product is as in the range, or infinite: NaN then
\* for x = 0.  Towards underflow it has the sign: NaN or infinite for an
\* infinite x.
TimesEdge(x, v, neg, p) ==
    IF x.cls = "zero" THEN v = Zero(neg) \/ (High(p) /\ v = NaN)
    ELSE IF x.cls = "inf" THEN v = Inf(neg) \/ (~High(p) /\ v = NaN)
    ELSE /\ Signed(v, neg)
         /\ (High(p) /\ v.cls # "inf") =>
                NearBy(MagOf(v), MTimes(MagOf(x), p.lo), MTimes(MagOf(x), p.hi), LastUlps)

\* v against x * body^k, k >= 1, the power of the f64 body taken exactly.
TimesPower(x, v, body, k) ==
    LET neg == x.neg # (body.neg /\ k % 2 = 1)
    IN IF body.cls = "zero" THEN v = ToZero(x, neg)
       ELSE IF body.cls = "inf" THEN v = ToInfinity(x, neg)
       ELSE LET p == BodyPower(body, k)
            IN IF p.lo.sat = "over" THEN v = ToInfinity(x, neg)
               ELSE IF p.lo.sat = "under" THEN v = ToZero(x, neg)
               ELSE IF ~InRange(p.lo) \/ ~InRange(p.hi) THEN TimesEdge(x, v, neg, p)
               ELSE IF x.cls = "zero" THEN v = Zero(neg)
               ELSE IF x.cls = "inf" THEN v = Inf(neg)
               ELSE Product(x, v, neg, p, LastUlps)

\* v against x * b^k, k >= 1, for a finite x # 0 and the fraction b # 0,
\* where the errors on the way stay small and the power is in the normal
\* range.
TimesFraction(x, v, b, k) ==
    LET p == RefPower(b, k)
        ulps == Ulps(Condition(b), k)
    IN (NBitLen(ulps) <= UlpsBits /\ p.lo.sat = "no" /\ InRange(p.lo) /\ InRange(p.hi)) =>
            Product(x, v, x.neg # (b.neg /\ k % 2 = 1), p, ulps)

\* C1: with times_per_year >= 1 the result is principal * (1 + r/n)^(n*t),
\* r = rate / 100, as f64 arithmetic gives it, for every principal and rate.
\* It is principal itself for n * t = 0, and NaN otherwise for a NaN among
\* principal and rate.  Else, with c the condition of the sum, |r/n| over
\* |1 + r/n| rounded up:
\*  - the f64 sum 1 + r/n lies within 2 * c + 2 units of 2^-53 of the exact
\*    1 + rate / (100 * n), is 0 where that is 0 and the infinity of an
\*    infinite rate;
\*  - against principal times the exact power of the f64 sum the result has
\*    the sign and lies within 4 units of 2^-53; it is 0 where the power is 0
\*    or underflows (NaN for an infinite principal) and the infinity of the
\*    sign where it overflows (NaN for principal 0);
\*  - against principal * (1 + rate / (100 * n))^(n*t) in exact arithmetic
\*    the result has the sign and lies within n * t * (2 * c + 4) + 3 units
\*    of 2^-53, as long as those units take 26 bits at most: 8 * n * t + 3
\*    for c <= 2.
\* The bounds in units of 2^-53 hold for a finite principal # 0 where the
\* power lies in the normal range of f64, two binades off its ends: there
\* the result is finite and within them, and within 2^-1074 more where it is
\* not normal, or is the infinity of the sign for a product of 2^1023 or
\* more.  Between that range and the overflow of the power the second bound
\* holds or the result is as for a power that overflows; between it and the
\* underflow of the power the result is only said to have the sign.
C1_CompoundFormula ==
    LET c == ret[1].call
        v == ret[1].res.val
        n == c.times_per_year
        k == n * c.years
        body == Let_body(Let_r(c.rate), Let_n(n))
        b == BodyFraction(c.rate, n)
    IN (Returned(1, "compound") /\ n >= 1) =>
        /\ ret[1].res.ok
        /\ IF k = 0 THEN v = c.x
           ELSE IF c.rate.cls = "nan" \/ c.x.cls = "nan" THEN v = NaN
           ELSE /\ BodyNear(body, c.rate, b)
                /\ TimesPower(c.x, v, body, k)
                /\ (c.rate.cls # "inf" /\ Len(b.num) # 0 /\ c.x.cls = "fin") =>
                        TimesFraction(c.x, v, b, k)

\* 1000 at 200 percent, compounded once a year for 34 years: 3.0^34 lies
\* midway between two f64 and the C library's pow returns the odd one,
\* 8338590849833285 * 2; the result is 8143155126790317 * 2^11.
C1_Witness ==
    /\ Returned(1, "compound")
    /\ ret[1].call.x = F1000 /\ ret[1].call.rate = Fin(FALSE, 25, 3)
    /\ ret[1].call.times_per_year = 1 /\ ret[1].call.years = 34
    /\ ret[1].res = Ok(F64(FALSE, <<26797,6493,14496,231>>, 11))

\* v against x over a real between p.lo and p.hi, for a finite x # 0 and
\* p in the normal range: of the sign neg; finite and within ulps units of
\* 2^-53, and 2^-1074 where not normal, or infinite for a quotient of 2^1023
\* or more.
Quotient(x, v, neg, p, ulps) ==
    LET a == MagOf(x)
    IN /\ Signed(v, neg)
       /\ v.cls = "inf" => TopOf(a) - TopOf(p.lo) >= EMax - 1
       /\ v.cls # "inf" => NearQuotientBy(MagOf(v), a, p.lo, p.hi, ulps)

\* v against x over a power p outside the normal range and not saturated.
\* Towards overflow the quotient is as in the range, or 0: NaN then for an
\* infinite x.  Towards underflow it has the sign: NaN or 0 for x = 0.
OverEdge(x, v, neg, p) ==
    IF x.cls = "zero" THEN v = Zero(neg) \/ (~High(p) /\ v = NaN)
    ELSE IF x.cls = "inf" THEN v = Inf(neg) \/ (High(p) /\ v = NaN)
    ELSE /\ Signed(v, neg)
         /\ (High(p) /\ v.cls # "zero") => Quotient(x, v, neg, p, LastUlps)

\* v against x / body^k, k >= 1, the power of the f64 body taken exactly.
OverPower(x, v, body, k) ==
    LET neg == x.neg # (body.neg /\ k % 2 = 1)
    IN IF body.cls = "zero" THEN v = ToInfinity(x, neg)
       ELSE IF body.cls = "inf" THEN v = ToZero(x, neg)
       ELSE LET p == BodyPower(body, k)
            IN IF p.lo.sat = "over" THEN v = ToZero(x, neg)
               ELSE IF p.lo.sat = "under" THEN v = ToInfinity(x, neg)
               ELSE IF ~InRange(p.lo) \/ ~InRange(p.hi) THEN OverEdge(x, v, neg, p)
               ELSE IF x.cls = "zero" THEN v = Zero(neg)
               ELSE IF x.cls = "inf" THEN v = Inf(neg)
               ELSE Quotient(x, v, neg, p, LastUlps)

\* v against x / b^k, k >= 1, for a finite x # 0 and the fraction b # 0,
\* where the errors on the way stay small and the power is in the normal
\* range.
OverFraction(x, v, b, k) ==
    LET p == RefPower(b, k)
        ulps == Ulps(Condition(b), k)
    IN (NBitLen(ulps) <= UlpsBits /\ p.lo.sat = "no" /\ InRange(p.lo) /\ InRange(p.hi)) =>
            Quotient(x, v, x.neg # (b.neg /\ k % 2 = 1), p, ulps)

\* C2: the result is amount / (1 + r)^years, r = inflation_rate / 100, as
\* f64 arithmetic gives it, for every amount and inflation_rate.  It is
\* amount itself for years = 0, and NaN otherwise for a NaN among amount and
\* inflation_rate.  Else, with c the condition of the sum, |r| over |1 + r|
\* rounded up:
\*  - the f64 sum 1 + r lies within 2 * c + 2 units of 2^-53 of the exact
\*    1 + inflation_rate / 100, is 0 where that is 0 and the infinity of an
\*    infinite rate;
\*  - against amount over the exact power of the f64 sum the result has the
\*    sign and lies within 4 units of 2^-53; it is the infinity of the sign
\*    where the power is 0 or underflows (NaN for amount 0) and 0 where it
\*    overflows (NaN for an infinite amount);
\*  - against amount / (1 + inflation_rate / 100)^years in exact arithmetic
\*    the result has the sign and lies within years * (2 * c + 4) + 3 units
\*    of 2^-53, as long as those units take 26 bits at most: 8 * years + 3
\*    for c <= 2.
\* The bounds in units of 2^-53 hold for a finite amount # 0 where the
\* power lies in the normal range of f64, two binades off its ends: there
\* the result is finite and within them, and within 2^-1074 more where it is
\* not normal, or is the infinity of the sign for a quotient of 2^1023 or
\* more.  Between that range and the overflow of the power the second bound
\* holds or the result is as for a power that overflows; between it and the
\* underflow of the power the result is only said to have the sign.
C2_InflationFormula ==
    LET c == ret[1].call
        v == ret[1].res.val
        k == c.years
        body == FAdd(One, Let_r(c.rate))
        b == BodyFraction(c.rate, 1)
    IN Returned(1, "inflation") =>
        /\ ret[1].res.ok
        /\ IF k = 0 THEN v = c.x
           ELSE IF c.rate.cls = "nan" \/ c.x.cls = "nan" THEN v = NaN
           ELSE /\ BodyNear(body, c.rate, b)
                /\ OverPower(c.x, v, body, k)
                /\ (c.rate.cls # "inf" /\ Len(b.num) # 0 /\ c.x.cls = "fin") =>
                        OverFraction(c.x, v, b, k)

\* 1000 at 1 percent over 346 years: the C library's pow returns the f64
\* above 1.01^346, the farther of the two around it; the result is
\* 562502530364943 * 2^-44.
C2_Witness ==
    /\ Returned(1, "inflation")
    /\ ret[1].call.x = F1000 /\ ret[1].call.rate = Fin(FALSE, 1, 0) /\ ret[1].call.years = 346
    /\ ret[1].res = Ok(F64(FALSE, <<30223,9987,32351,15>>, -44))

\* What the statement thread th stands at may yield: the value a let binds,
\* as Ok of it, or the result a return hands back.
Pending(th) ==
    LET f == frame[slot(th)]
    IN CASE pc[th] = "c7" -> {Ok(Let_r(f.rate))}
         [] pc[th] = "c8" -> {Ok(Let_n(f.times_per_year))}
         [] pc[th] = "c9" -> {Ok(Let_t(f.years))}
         [] pc[th] = "c10" -> {Ok(Let_body(f.r, f.n))}
         [] pc[th] = "c11" -> {Ok(Let_exponent(f.n, f.t))}
         [] pc[th] = "c12" -> Ok_compound(f.principal, f.body, f.exponent)
         [] pc[th] = "i19" -> {Ok(Let_r(f.inflation_rate))}
         [] pc[th] = "i20" -> {Ok(Let_t(f.years))}
         [] pc[th] = "i21" -> {Ok(d) : d \in Let_denominator(f.r, f.t)}
         [] pc[th] = "i22" -> {Ok_inflation(f.amount, f.denominator)}

\* C3: every statement of a call yields an f64 (finite, infinite or NaN) and
\* every call returns Ok of one; no input, times_per_year = 0 and
\* inflation_rate = -100 included, is rejected.
C3_NeverAnError ==
    \A th \in Threads :
        /\ ret[th].call.fn # "none" => (ret[th].res.ok /\ ret[th].res.val.cls \in F64Classes)
        /\ pc[th] # "idle" => \A res \in Pending(th) : res.ok /\ res.val.cls \in F64Classes

\* times_per_year = 0 at rate 0 (r / n = 0 / 0 = NaN) returns Ok.
C3_Witness ==
    /\ Returned(1, "compound")
    /\ ret[1].call.times_per_year = 0 /\ ret[1].call.rate = Zero(FALSE)
    /\ ret[1].call.years = 1 /\ ret[1].call.x = F1000
    /\ ret[1].res.ok

\* C4: at rate 0 calculate_compound_interest returns exactly principal, for
\* any times_per_year and any years.
C4_ZeroRate ==
    (Returned(1, "compound") /\ ret[1].call.rate.cls = "zero") => ret[1].res = Ok(ret[1].call.x)

C4_Witness ==
    /\ Returned(1, "compound")
    /\ ret[1].call.rate = Zero(FALSE) /\ ret[1].call.times_per_year = 12
    /\ ret[1].call.years = 1100 /\ ret[1].call.x = F1000
    /\ ret[1].res = Ok(F1000)

\* C5: at years = 0 calculate_compound_interest returns principal for every
\* rate and times_per_year, and calculate_inflation_impact returns amount
\* for every inflation_rate other than -100.
C5_ZeroYears ==
    /\ (Returned(1, "compound") /\ ret[1].call.years = 0) => ret[1].res = Ok(ret[1].call.x)
    /\ (Returned(1, "inflation") /\ ret[1].call.years = 0 /\ ret[1].call.rate # MinusHundred)
            => ret[1].res = Ok(ret[1].call.x)

C5_Witness ==
    /\ Returned(1, "compound")
    /\ ret[1].call.years = 0 /\ ret[1].call.rate = Fin(FALSE, 5, 0)
    /\ ret[1].call.times_per_year = 12 /\ ret[1].call.x = F1000
    /\ ret[1].res = Ok(F1000)

PositiveRate(rate) == rate.cls = "fin" /\ ~rate.neg

\* C6 as claimed: with a positive rate and the other inputs (finite ones
\* suffice) fixed, a later year gives a strictly greater compound result and
\* a strictly smaller inflation result.
C6_Original ==
    LET c == ret[1].call
        v == ret[1].res.val
    IN /\ (Returned(1, "compound") /\ PositiveRate(c.rate) /\ Finite(c.x)) =>
            \A y2 \in Years :
                y2 > c.years =>
                    \A r2 \in calculate_compound_interest(c.x, c.rate, c.times_per_year, y2) :
                        FLt(v, r2.val)
       /\ (Returned(1, "inflation") /\ PositiveRate(c.rate) /\ Finite(c.x)) =>
            \A y2 \in Years :
                y2 > c.years =>
                    \A r2 \in calculate_inflation_impact(c.x, c.rate, y2) : FLt(r2.val, v)

\* 1 + 2^-52, the f64 after 1.
AfterOne == F64(FALSE, <<1, 0, 0, 128>>, -52)
\* 1 + 2^-50: a sum 1 + r/n of that much or more grows by more in one
\* period than the errors of two powers (below one unit in the last place
\* each) and of the two last operations take away.
GrowthFloor == F64(FALSE, <<1, 0, 0, 32>>, -50)

\* The comparison of C6 for a finite principal (amount) above 0 and
\* times_per_year >= 1: the result returned against every result of the
\* same call for a later year, where the f64 sum 1 + r/n (1 + r) is `least`
\* or more; `floor` asks that the smaller of the two results is a finite
\* f64 of 2^-1022 or more.
Later(least, floor) ==
    LET c == ret[1].call
        v == ret[1].res.val
    IN /\ (Returned(1, "compound") /\ PositiveRate(c.rate) /\ c.x.cls = "fin" /\ ~c.x.neg
            /\ c.times_per_year >= 1
            /\ ~FLt(Let_body(Let_r(c.rate), Let_n(c.times_per_year)), least)
            /\ (floor => Normal(v))) =>
            \A y2 \in Years :
                y2 > c.years =>
                    \A r2 \in calculate_compound_interest(c.x, c.rate, c.times_per_year, y2) :
                        FLt(v, r2.val)
       /\ (Returned(1, "inflation") /\ PositiveRate(c.rate) /\ c.x.cls = "fin" /\ ~c.x.neg
            /\ ~FLt(FAdd(One, Let_r(c.rate)), least)) =>
            \A y2 \in Years :
                y2 > c.years =>
                    \A r2 \in calculate_inflation_impact(c.x, c.rate, y2) :
                        (floor => Normal(r2.val)) => FLt(r2.val, v)

\* C6 as amended: with a positive rate, a finite principal (amount) above 0
\* and times_per_year >= 1, a later year gives a strictly greater compound
\* result and a strictly smaller inflation result, whichever of the values
\* it may take powf returns, where the f64 sum 1 + r/n (1 + r) is 1 + 2^-50
\* or more and the smaller of the two results is a finite f64 of 2^-1022 or
\* more.
C6_Monotone == Later(GrowthFloor, TRUE)

\* A sum above 1 is not enough: at the rate 100 * 2^-52 the sum is
\* 1 + 2^-52, and the f64 above its square is the f64 below its cube, so
\* the years 2 and 3 may give one result.
C6_WithoutMargin == Later(AfterOne, TRUE)
\* The floor is needed: 2^-1074 at 1 percent is 2^-1074 after 1
\* year and after 2; 1000 at 200 percent has grown to the infinity after
\* 646 years and after 1100.
C6_WithoutFloor == Later(GrowthFloor, FALSE)

\* 1000 at 5 percent, 12 times a year: 1051.161897881733 after 1 year, below
\* the results of the later years.
C6_Witness ==
    /\ Returned(1, "compound")
    /\ ret[1].call.x = F1000 /\ ret[1].call.rate = Fin(FALSE, 5, 0)
    /\ ret[1].call.times_per_year = 12 /\ ret[1].call.years = 1
    /\ ret[1].res = Ok(F64(FALSE, <<27991, 4381, 12951, 131>>, -42))

\* C7 as claimed: at inflation_rate = -100 the result is amount for
\* years = 0 and an infinity (of either sign) for years > 0, for every
\* amount (finite ones suffice).
C7_Original ==
    LET c == ret[1].call
    IN (Returned(1, "inflation") /\ c.rate = MinusHundred /\ Finite(c.x)) =>
        /\ c.years = 0 => ret[1].res = Ok(c.x)
        /\ c.years > 0 => (ret[1].res.ok /\ ret[1].res.val.cls = "inf")

\* C7 as amended: at inflation_rate = -100 the result is amount for
\* years = 0; for years > 0 it is +infinity for amount > 0, -infinity for
\* amount < 0 and NaN for amount 0 or NaN.
C7_MinusHundred ==
    LET c == ret[1].call
    IN (Returned(1, "inflation") /\ c.rate = MinusHundred) =>
        /\ c.years = 0 => ret[1].res = Ok(c.x)
        /\ c.years > 0 =>
            ret[1].res = Ok(IF c.x.cls \in {"zero", "nan"} THEN NaN ELSE Inf(c.x.neg))

\* 0 / 0^2 = NaN.
C7_Witness ==
    /\ Returned(1, "inflation")
    /\ ret[1].call.rate = MinusHundred /\ ret[1].call.years = 2 /\ ret[1].call.x = Zero(FALSE)
    /\ ret[1].res = Ok(NaN)

\* C10: at times_per_year = 0 the sum 1 + r/n is infinite or NaN and the
\* exponent n * t is 0, for every rate and years; the call returns principal
\* for every finite principal.
C10_ZeroPeriods ==
    LET f == frame[slot(1)]
    IN /\ (pc[1] \in {"c11", "c12"} /\ f.times_per_year = 0) => f.body.cls \in {"inf", "nan"}
       /\ (pc[1] = "c12" /\ f.times_per_year = 0) => f.exponent = Zero(FALSE)
       /\ (Returned(1, "compound") /\ ret[1].call.times_per_year = 0 /\ Finite(ret[1].call.x))
            => ret[1].res = Ok(ret[1].call.x)

C10_Witness ==
    /\ Returned(1, "compound")
    /\ ret[1].call.times_per_year = 0 /\ ret[1].call.rate = Fin(FALSE, 5, 0)
    /\ ret[1].call.years = 1100 /\ ret[1].call.x = F1000
    /\ ret[1].res = Ok(F1000)

SameArgs(c, d) ==
    /\ c.fn = d.fn /\ c.x = d.x /\ c.rate = d.rate
    /\ c.times_per_year = d.times_per_year /\ c.years = d.years

Alone(c) ==
    IF c.fn = "compound" THEN calculate_compound_interest(c.x, c.rate, c.times_per_year, c.years)
    ELSE calculate_inflation_impact(c.x, c.rate, c.years)

\* C9: under every interleaving of the statements of two unsynchronized
\* threads, each call returns what it returns when run alone: that one
\* result and no other.
C9_Interleaving ==
    \A th \in Threads : ret[th].call.fn # "none" => Alone(ret[th].call) = {ret[th].res}

\* Thread 1 ran its whole call, the second issued, while the call thread 2
\* issued first was still in flight.
C9_Witness ==
    /\ ret[1].call.no = 2 /\ ret[1].res.ok
    /\ pc[2] # "idle" /\ call[2].no = 1
    /\ ~SameArgs(call[2], ret[1].call)

====
